---- MODULE Spec2Model ----
(***************************************************************************)
(* Clinical overlay and capture system: the capture loop of main.py (local *)
(* webcam) and main_phone.py (networked camera), with the mouse callback,  *)
(* the start-up sequence and the process exit.                             *)
(***************************************************************************)
EXTENDS Integers, Sequences, FiniteSets, TLC

VARIABLES
    variant,        \* "main" (src/main.py) or "phone" (src/main_phone.py)
    pc,             \* position of main()
    opened,         \* cap.isOpened()
    released,       \* number of cap.release() calls
    width, height,  \* frame dimensions taken from the first frame
    dirExists,      \* captured_images exists on disk
    mkdirCalls,     \* number of os.makedirs calls
    windowOpen,     \* the named window exists
    callbackSet,    \* cv2.setMouseCallback was called
    button_clicked, \* global flag written by mouse_callback
    button_rect,    \* global rectangle, <<>> is None
    captured,       \* loop-local flag: FALSE = LIVE, TRUE = FROZEN
    key,            \* loop-local result of the LIVE key poll
    frame,          \* loop-local frame being annotated
    display,        \* last frame handed to cv2.imshow
    shown,          \* number of cv2.imshow calls
    writes,         \* number of cv2.imwrite calls
    filesWritten,   \* number of cv2.imwrite calls that returned True
    iter,           \* number of cap.read() calls made by the loop
    events,         \* pointer events delivered during the current poll
    errorPrinted,   \* an "ERROR: ..." line was printed
    exitCode,       \* process exit status, -1 while running
    \* history of the run, read only by the properties
    startFail,      \* "none", "open" or "first_read"
    dirAtStart,     \* dirExists at program start
    enteredLoop,    \* the while loop was reached
    clicksThisPoll, \* pointer-downs inside button_rect in the current poll
    writesThisIter, \* imwrite calls in the current iteration
    quitPolled,     \* a key poll has returned 'q'
    frozenTrig,     \* a capture trigger arrived while FROZEN
    readFails,      \* failed cap.read() calls inside the loop
    renderer,       \* the OverlayRenderer built at start-up
    overlay_config, \* main's overlay_config = renderer.get_config()
    lastPointer,    \* the pointer event being handled, <<event, x, y>>
    quitRequested   \* the user has pressed 'q' and it has not been polled

vars == <<variant, pc, opened, released, width, height, dirExists, mkdirCalls,
          windowOpen, callbackSet, button_clicked, button_rect, captured, key,
          frame, display, shown, writes, filesWritten, iter, events,
          errorPrinted, exitCode, startFail, dirAtStart, enteredLoop,
          clicksThisPoll, writesThisIter, quitPolled, frozenTrig, readFails,
          renderer, overlay_config, lastPointer, quitRequested>>

----------------------------------------------------------------------------
(* Bounds *)

MaxIter == 3

MaxEvents == 2

MaxWidth == 260

MaxHeight == 200

----------------------------------------------------------------------------
(* Inputs *)

Variants == {"main", "phone"}

FrameSizes == {<<640, 480>>, <<320, 240>>, <<175, 144>>}

\* frame dimensions for the overlay geometry: every small size and the
\* common camera resolutions
GeomWidths == (1 .. MaxWidth) \cup {320, 640, 1280, 1920}

GeomHeights == (1 .. MaxHeight) \cup {240, 480, 720, 1080}

\* raw results of cv2.waitKey(1): no key, space, 'q', 'Q', 'q' with a
\* modifier bit set above the low byte
RawKeys == {-1, 32, 113, 81, 1048689}

EVENT_MOUSEMOVE == 0

EVENT_LBUTTONDOWN == 1

EVENT_LBUTTONUP == 4

MouseEvents == {EVENT_MOUSEMOVE, EVENT_LBUTTONDOWN, EVENT_LBUTTONUP}

----------------------------------------------------------------------------
(* Constants of the program *)

button_width == 200

button_height == 60

button_bottom_margin == 100

ord_q == 113

ord_space == 32

NoKey == 255

None == <<>>

LiveMessage == "Align coin and lesion in guides"

FrozenMessage == "CAPTURED SUCCESSFULLY - Press Q to exit"

Green == <<0, 255, 0>>

Cyan == <<0, 255, 255>>

----------------------------------------------------------------------------
(* Frames and drawing *)

RawFrame ==
    [guides |-> FALSE, banner |-> "", color |-> <<0, 0, 0>>,
     labels |-> FALSE, button |-> FALSE]

NoDisplay ==
    [guides |-> FALSE, banner |-> "none", color |-> <<0, 0, 0>>,
     labels |-> FALSE, button |-> FALSE]

draw_static_guides(f) == [f EXCEPT !.guides = TRUE]

show_feedback(f, message, color) ==
    [f EXCEPT !.banner = message, !.color = color, !.labels = TRUE]

DrawButton(f) == [f EXCEPT !.button = TRUE]

\* a button placed at half the width minus the whole button width
ButtonRect_NotHalved(w, h) ==
    <<w \div 2 - button_width, h - button_bottom_margin,
      button_width, button_height>>

ButtonRect(w, h) ==
    <<(w - button_width) \div 2, h - button_bottom_margin,
      button_width, button_height>>

KeyMask(raw) == raw % 256

----------------------------------------------------------------------------
(* Overlay geometry (overlay.py) *)

\* int(c * n) for the float constants of OverlayRenderer.__init__.  The
\* product is a double, rounded to nearest, and int() truncates it.  Where
\* the exact product c * n is not a whole number it lies at least 1/25 from
\* one, far more than the rounding error, and int() gives its floor.  Where
\* it is a whole number N, the double nearest to 0.20 and to 0.08 lies above
\* the decimal and the product rounds to N; 0.25 and 0.5 are exact; the
\* double nearest to 0.30 lies below it by 2/3 of 2^-54 relative, less than
\* half a unit in the last place of any N, so the product rounds to N; the
\* double nearest to 0.35 lies below it by 8/7 of 2^-54 relative, and the
\* product rounds to the double below N when N is more than 7/4 of the
\* largest power of two not above it (0.35 * 180 is 62.99999999999999).

RECURSIVE Pow2Floor(_)
Pow2Floor(n) == IF n < 2 THEN 1 ELSE 2 * Pow2Floor(n \div 2)

Trunc020(n) == n \div 5

Trunc025(n) == n \div 4

Trunc030(n) == (3 * n) \div 10

Trunc035(n) ==
    IF n > 0 /\ (7 * n) % 20 = 0
          /\ 4 * ((7 * n) \div 20) > 7 * Pow2Floor((7 * n) \div 20)
    THEN (7 * n) \div 20 - 1
    ELSE (7 * n) \div 20

Trunc008(n) == (2 * n) \div 25

Trunc050(n) == n \div 2

\* int(0.02 * 96 / 0.0254): the quotient is 19200 / 254
gap_pixels == (200 * 96) \div 254

\* a lesion box stored as (x, y, width, height)
LesionBox_AsXYWH(w, h) ==
    <<Trunc025(w), Trunc035(h), Trunc020(w), Trunc030(h)>>

\* lesion_box = (x1, y1, x1 + lesion_width, y1 + lesion_height)
LesionBox(w, h) ==
    <<Trunc025(w), Trunc035(h),
      Trunc025(w) + Trunc020(w), Trunc035(h) + Trunc030(h)>>

\* a coin radius of 18% of the width
CoinRadius_Wide(w) == (18 * w) \div 100

\* coin_radius = int(0.08 * width)
CoinRadius(w) == Trunc008(w)

\* a coin circle placed against the lesion box, without the gap
CoinCenter_NoGap(w, h) ==
    <<Trunc025(w) + Trunc020(w) + CoinRadius(w), Trunc050(h)>>

\* coin_center = (lesion_x1 + lesion_width + gap_pixels + coin_radius,
\*                int(0.5 * height))
CoinCenter(w, h) ==
    <<Trunc025(w) + Trunc020(w) + gap_pixels + CoinRadius(w), Trunc050(h)>>

\* OverlayRenderer.__init__
OverlayRenderer(w, h) ==
    [width |-> w, height |-> h,
     lesion_box |-> LesionBox(w, h),
     coin_radius |-> CoinRadius(w),
     coin_center |-> CoinCenter(w, h)]

\* OverlayRenderer.get_config
get_config(r) ==
    [coin_center |-> r.coin_center,
     coin_radius |-> r.coin_radius,
     lesion_box |-> r.lesion_box]

NoRenderer ==
    [width |-> 0, height |-> 0, lesion_box |-> <<0, 0, 0, 0>>,
     coin_radius |-> 0, coin_center |-> <<0, 0>>]

NoConfig ==
    [coin_center |-> <<0, 0>>, coin_radius |-> 0, lesion_box |-> <<0, 0, 0, 0>>]

NoPointer == <<-1, 0, 0>>

----------------------------------------------------------------------------
(* Initial state: the process has started, main() has not run yet *)

Init ==
    /\ variant \in Variants
    /\ dirExists \in BOOLEAN
    /\ dirAtStart = dirExists
    /\ pc = "open"
    /\ opened = FALSE
    /\ released = 0
    /\ width = 0
    /\ height = 0
    /\ mkdirCalls = 0
    /\ windowOpen = FALSE
    /\ callbackSet = FALSE
    /\ button_clicked = FALSE
    /\ button_rect = None
    /\ captured = FALSE
    /\ key = NoKey
    /\ frame = RawFrame
    /\ display = NoDisplay
    /\ shown = 0
    /\ writes = 0
    /\ filesWritten = 0
    /\ iter = 0
    /\ events = 0
    /\ errorPrinted = FALSE
    /\ exitCode = -1
    /\ startFail = "none"
    /\ enteredLoop = FALSE
    /\ clicksThisPoll = 0
    /\ writesThisIter = 0
    /\ quitPolled = FALSE
    /\ frozenTrig = FALSE
    /\ readFails = 0
    /\ renderer = NoRenderer
    /\ overlay_config = NoConfig
    /\ lastPointer = NoPointer
    /\ quitRequested = FALSE

----------------------------------------------------------------------------
(* Start-up *)

\* cv2.VideoCapture(...) opened the device
OpenOk ==
    /\ pc = "open"
    /\ opened' = TRUE
    /\ pc' = "first_read"
    /\ UNCHANGED <<renderer, overlay_config, lastPointer, quitRequested,
                   variant, released, width, height, dirExists, mkdirCalls,
                   windowOpen, callbackSet, button_clicked, button_rect,
                   captured, key, frame, display, shown, writes, filesWritten,
                   iter, events, errorPrinted, exitCode, startFail, dirAtStart,
                   enteredLoop, clicksThisPoll, writesThisIter, quitPolled,
                   frozenTrig, readFails>>

\* not cap.isOpened(): print the error and return
OpenFail ==
    /\ pc = "open"
    /\ errorPrinted' = TRUE
    /\ startFail' = "open"
    /\ pc' = "returned"
    /\ UNCHANGED <<renderer, overlay_config, lastPointer, quitRequested,
                   variant, opened, released, width, height, dirExists,
                   mkdirCalls, windowOpen, callbackSet, button_clicked,
                   button_rect, captured, key, frame, display, shown, writes,
                   filesWritten, iter, events, exitCode, dirAtStart,
                   enteredLoop, clicksThisPoll, writesThisIter, quitPolled,
                   frozenTrig, readFails>>

\* the first cap.read() succeeded: width and height come from the frame
FirstReadOk ==
    /\ pc = "first_read"
    /\ \E sz \in FrameSizes :
          /\ width' = sz[1]
          /\ height' = sz[2]
    /\ frame' = RawFrame
    /\ pc' = "mkdir"
    /\ UNCHANGED <<renderer, overlay_config, lastPointer, quitRequested,
                   variant, opened, released, dirExists, mkdirCalls,
                   windowOpen, callbackSet, button_clicked, button_rect,
                   captured, key, display, shown, writes, filesWritten, iter,
                   events, errorPrinted, exitCode, startFail, dirAtStart,
                   enteredLoop, clicksThisPoll, writesThisIter, quitPolled,
                   frozenTrig, readFails>>

\* a first-read failure that forgets to return and goes on with start-up
FirstReadFail_NoReturn ==
    /\ pc = "first_read"
    /\ errorPrinted' = TRUE
    /\ released' = released + 1
    /\ startFail' = "first_read"
    /\ pc' = "mkdir"
    /\ UNCHANGED <<renderer, overlay_config, lastPointer, quitRequested,
                   variant, opened, width, height, dirExists, mkdirCalls,
                   windowOpen, callbackSet, button_clicked, button_rect,
                   captured, key, frame, display, shown, writes, filesWritten,
                   iter, events, exitCode, dirAtStart, enteredLoop,
                   clicksThisPoll, writesThisIter, quitPolled, frozenTrig,
                   readFails>>

\* the first cap.read() failed: print the error, release, return
FirstReadFail ==
    /\ pc = "first_read"
    /\ errorPrinted' = TRUE
    /\ released' = released + 1
    /\ startFail' = "first_read"
    /\ pc' = "returned"
    /\ UNCHANGED <<renderer, overlay_config, lastPointer, quitRequested,
                   variant, opened, width, height, dirExists, mkdirCalls,
                   windowOpen, callbackSet, button_clicked, button_rect,
                   captured, key, frame, display, shown, writes, filesWritten,
                   iter, events, exitCode, dirAtStart, enteredLoop,
                   clicksThisPoll, writesThisIter, quitPolled, frozenTrig,
                   readFails>>

\* os.path.exists(captures_dir) is true: nothing is created
DirPresent ==
    /\ pc = "mkdir"
    /\ dirExists
    /\ pc' = "setup"
    /\ UNCHANGED <<renderer, overlay_config, lastPointer, quitRequested,
                   variant, opened, released, width, height, dirExists,
                   mkdirCalls, windowOpen, callbackSet, button_clicked,
                   button_rect, captured, key, frame, display, shown, writes,
                   filesWritten, iter, events, errorPrinted, exitCode,
                   startFail, dirAtStart, enteredLoop, clicksThisPoll,
                   writesThisIter, quitPolled, frozenTrig, readFails>>

\* a start-up that finds the directory missing and does not create it
MakedirsOk_Skip ==
    /\ pc = "mkdir"
    /\ ~dirExists
    /\ pc' = "setup"
    /\ UNCHANGED <<renderer, overlay_config, lastPointer, quitRequested,
                   variant, opened, released, width, height, dirExists,
                   mkdirCalls, windowOpen, callbackSet, button_clicked,
                   button_rect, captured, key, frame, display, shown, writes,
                   filesWritten, iter, events, errorPrinted, exitCode,
                   startFail, dirAtStart, enteredLoop, clicksThisPoll,
                   writesThisIter, quitPolled, frozenTrig, readFails>>

\* the directory is missing and os.makedirs creates it
MakedirsOk ==
    /\ pc = "mkdir"
    /\ ~dirExists
    /\ mkdirCalls' = mkdirCalls + 1
    /\ dirExists' = TRUE
    /\ pc' = "setup"
    /\ UNCHANGED <<renderer, overlay_config, lastPointer, quitRequested,
                   variant, opened, released, width, height, windowOpen,
                   callbackSet, button_clicked, button_rect, captured, key,
                   frame, display, shown, writes, filesWritten, iter, events,
                   errorPrinted, exitCode, startFail, dirAtStart, enteredLoop,
                   clicksThisPoll, writesThisIter, quitPolled, frozenTrig,
                   readFails>>

\* the directory is missing and os.makedirs raises OSError, which nothing
\* catches
MakedirsRaise ==
    /\ pc = "mkdir"
    /\ ~dirExists
    /\ mkdirCalls' = mkdirCalls + 1
    /\ pc' = "raised"
    /\ UNCHANGED <<renderer, overlay_config, lastPointer, quitRequested,
                   variant, opened, released, width, height, dirExists,
                   windowOpen, callbackSet, button_clicked, button_rect,
                   captured, key, frame, display, shown, writes, filesWritten,
                   iter, events, errorPrinted, exitCode, startFail, dirAtStart,
                   enteredLoop, clicksThisPoll, writesThisIter, quitPolled,
                   frozenTrig, readFails>>

\* renderer, window, mouse callback, captured = False
Setup ==
    /\ pc = "setup"
    /\ windowOpen' = TRUE
    /\ callbackSet' = TRUE
    /\ captured' = FALSE
    /\ enteredLoop' = TRUE
    /\ renderer' = OverlayRenderer(width, height)
    /\ overlay_config' = get_config(renderer')
    /\ pc' = "read"
    /\ UNCHANGED <<lastPointer, quitRequested,
                   variant, opened, released, width, height, dirExists,
                   mkdirCalls, button_clicked, button_rect, key, frame,
                   display, shown, writes, filesWritten, iter, events,
                   errorPrinted, exitCode, startFail, dirAtStart,
                   clicksThisPoll, writesThisIter, quitPolled, frozenTrig,
                   readFails>>

----------------------------------------------------------------------------
(* The mouse callback *)

\* a bounds test that leaves out the right and bottom edges
InRect_Exclusive(rect, x, y) ==
    /\ rect[1] <= x
    /\ x < rect[1] + rect[3]
    /\ rect[2] <= y
    /\ y < rect[2] + rect[4]

InRect(rect, x, y) ==
    /\ rect[1] <= x
    /\ x <= rect[1] + rect[3]
    /\ rect[2] <= y
    /\ y <= rect[2] + rect[4]

\* event == cv2.EVENT_LBUTTONDOWN and button_rect, then the bounds test
Hit(event, x, y) ==
    IF event = EVENT_LBUTTONDOWN /\ button_rect # None
    THEN InRect(button_rect, x, y)
    ELSE FALSE

mouse_callback(event, x, y) ==
    button_clicked' = IF Hit(event, x, y) THEN TRUE ELSE button_clicked

\* pointer positions: just outside, on both edges of, and just beyond the
\* capture control
PointerXs ==
    IF button_rect = None THEN {0}
    ELSE {button_rect[1] - 1, button_rect[1],
          button_rect[1] + button_rect[3], button_rect[1] + button_rect[3] + 1}

PointerYs ==
    IF button_rect = None THEN {0}
    ELSE {button_rect[2] - 1, button_rect[2],
          button_rect[2] + button_rect[4], button_rect[2] + button_rect[4] + 1}

\* the window system delivers one pointer event inside cv2.waitKey
MouseEvent ==
    /\ pc \in {"poll_live", "poll_frozen"}
    /\ callbackSet
    /\ events < MaxEvents
    /\ \E event \in MouseEvents, x \in PointerXs, y \in PointerYs :
          /\ mouse_callback(event, x, y)
          /\ clicksThisPoll' =
                IF Hit(event, x, y) THEN clicksThisPoll + 1 ELSE clicksThisPoll
          /\ frozenTrig' = (frozenTrig \/ (captured /\ Hit(event, x, y)))
          /\ lastPointer' = <<event, x, y>>
    /\ events' = events + 1
    /\ UNCHANGED <<renderer, overlay_config, quitRequested,
                   variant, pc, opened, released, width, height, dirExists,
                   mkdirCalls, windowOpen, callbackSet, button_rect, captured,
                   key, frame, display, shown, writes, filesWritten, iter,
                   errorPrinted, exitCode, startFail, dirAtStart, enteredLoop,
                   writesThisIter, quitPolled, readFails>>

----------------------------------------------------------------------------
(* The capture loop *)

\* a loop without the "if captured" branch
NextPcAfterRead_NoFrozenBranch(c) == "show_live"

\* if captured: frozen display, else the live path
NextPcAfterRead(c) == IF c THEN "show_frozen" ELSE "show_live"

\* a loop in which both variants leave on a failed read
ReadFailPc_AlwaysBreak(v) == "cleanup"

\* if not ret: break (main.py) / print warning, continue (main_phone.py)
ReadFailPc(v) == IF v = "main" THEN "cleanup" ELSE "read"

ReadOk ==
    /\ pc = "read"
    /\ iter < MaxIter
    /\ iter' = iter + 1
    /\ frame' = RawFrame
    /\ pc' = NextPcAfterRead(captured)
    /\ events' = 0
    /\ clicksThisPoll' = 0
    /\ writesThisIter' = 0
    /\ UNCHANGED <<renderer, overlay_config, lastPointer, quitRequested,
                   variant, opened, released, width, height, dirExists,
                   mkdirCalls, windowOpen, callbackSet, button_clicked,
                   button_rect, captured, key, display, shown, writes,
                   filesWritten, errorPrinted, exitCode, startFail, dirAtStart,
                   enteredLoop, quitPolled, frozenTrig, readFails>>

ReadFail ==
    /\ pc = "read"
    /\ iter < MaxIter
    /\ iter' = iter + 1
    /\ readFails' = readFails + 1
    /\ pc' = ReadFailPc(variant)
    /\ events' = 0
    /\ clicksThisPoll' = 0
    /\ writesThisIter' = 0
    /\ UNCHANGED <<renderer, overlay_config, lastPointer, quitRequested,
                   variant, opened, released, width, height, dirExists,
                   mkdirCalls, windowOpen, callbackSet, button_clicked,
                   button_rect, captured, key, frame, display, shown, writes,
                   filesWritten, errorPrinted, exitCode, startFail, dirAtStart,
                   enteredLoop, quitPolled, frozenTrig>>


\* a frozen display that keeps the live banner
ShowFrozen_LiveBanner ==
    /\ pc = "show_frozen"
    /\ frame' = show_feedback(draw_static_guides(frame), LiveMessage, Green)
    /\ display' = frame'
    /\ shown' = shown + 1
    /\ pc' = "poll_frozen"
    /\ UNCHANGED <<renderer, overlay_config, lastPointer, quitRequested,
                   variant, opened, released, width, height, dirExists,
                   mkdirCalls, windowOpen, callbackSet, button_clicked,
                   button_rect, captured, key, writes, filesWritten, iter,
                   events, errorPrinted, exitCode, startFail, dirAtStart,
                   enteredLoop, clicksThisPoll, writesThisIter, quitPolled,
                   frozenTrig, readFails>>

\* FROZEN: guides, the captured banner, imshow
ShowFrozen ==
    /\ pc = "show_frozen"
    /\ frame' = show_feedback(draw_static_guides(frame), FrozenMessage, Cyan)
    /\ display' = frame'
    /\ shown' = shown + 1
    /\ pc' = "poll_frozen"
    /\ UNCHANGED <<renderer, overlay_config, lastPointer, quitRequested,
                   variant, opened, released, width, height, dirExists,
                   mkdirCalls, windowOpen, callbackSet, button_clicked,
                   button_rect, captured, key, writes, filesWritten, iter,
                   events, errorPrinted, exitCode, startFail, dirAtStart,
                   enteredLoop, clicksThisPoll, writesThisIter, quitPolled,
                   frozenTrig, readFails>>

\* a frozen poll in which the space key re-arms the capture
PollFrozen_Rearm ==
    /\ pc = "poll_frozen"
    /\ \E raw \in RawKeys :
          /\ quitRequested => KeyMask(raw) = ord_q
          /\ pc' = IF KeyMask(raw) = ord_q THEN "cleanup" ELSE "read"
          /\ quitPolled' = (quitPolled \/ KeyMask(raw) = ord_q)
          /\ frozenTrig' = (frozenTrig \/ KeyMask(raw) = ord_space)
          /\ captured' = (KeyMask(raw) # ord_space)
    /\ lastPointer' = NoPointer
    /\ quitRequested' = FALSE
    /\ UNCHANGED <<renderer, overlay_config,
                   variant, opened, released, width, height, dirExists,
                   mkdirCalls, windowOpen, callbackSet, button_clicked,
                   button_rect, key, frame, display, shown, writes,
                   filesWritten, iter, events, errorPrinted, exitCode,
                   startFail, dirAtStart, enteredLoop, clicksThisPoll,
                   writesThisIter, readFails>>

\* FROZEN: if cv2.waitKey(1) & 0xFF == ord('q'): break, else continue
PollFrozen ==
    /\ pc = "poll_frozen"
    /\ \E raw \in RawKeys :
          /\ quitRequested => KeyMask(raw) = ord_q
          /\ pc' = IF KeyMask(raw) = ord_q THEN "cleanup" ELSE "read"
          /\ quitPolled' = (quitPolled \/ KeyMask(raw) = ord_q)
          /\ frozenTrig' = (frozenTrig \/ KeyMask(raw) = ord_space)
    /\ lastPointer' = NoPointer
    /\ quitRequested' = FALSE
    /\ UNCHANGED <<renderer, overlay_config,
                   variant, opened, released, width, height, dirExists,
                   mkdirCalls, windowOpen, callbackSet, button_clicked,
                   button_rect, captured, key, frame, display, shown, writes,
                   filesWritten, iter, events, errorPrinted, exitCode,
                   startFail, dirAtStart, enteredLoop, clicksThisPoll,
                   writesThisIter, readFails>>

\* a live display that rebuilds the renderer from the button's size
ShowLive_RecomputesGuides ==
    /\ pc = "show_live"
    /\ button_rect' = ButtonRect(width, height)
    /\ renderer' = OverlayRenderer(button_rect'[3], button_rect'[4])
    /\ frame' = DrawButton(
                   show_feedback(draw_static_guides(frame), LiveMessage, Green))
    /\ display' = frame'
    /\ shown' = shown + 1
    /\ pc' = "poll_live"
    /\ UNCHANGED <<overlay_config, lastPointer, quitRequested,
                   variant, opened, released, width, height, dirExists,
                   mkdirCalls, windowOpen, callbackSet, button_clicked,
                   captured, key, writes, filesWritten, iter, events,
                   errorPrinted, exitCode, startFail, dirAtStart,
                   enteredLoop, clicksThisPoll, writesThisIter, quitPolled,
                   frozenTrig, readFails>>

\* LIVE: guides, the live banner, button_rect, the capture control, imshow
ShowLive ==
    /\ pc = "show_live"
    /\ button_rect' = ButtonRect(width, height)
    /\ frame' = DrawButton(
                   show_feedback(draw_static_guides(frame), LiveMessage, Green))
    /\ display' = frame'
    /\ shown' = shown + 1
    /\ pc' = "poll_live"
    /\ UNCHANGED <<renderer, overlay_config, lastPointer, quitRequested,
                   variant, opened, released, width, height, dirExists,
                   mkdirCalls, windowOpen, callbackSet, button_clicked,
                   captured, key, writes, filesWritten, iter, events,
                   errorPrinted, exitCode, startFail, dirAtStart,
                   enteredLoop, clicksThisPoll, writesThisIter, quitPolled,
                   frozenTrig, readFails>>

\* LIVE: key = cv2.waitKey(1) & 0xFF
PollLive ==
    /\ pc = "poll_live"
    /\ \E raw \in RawKeys :
          /\ quitRequested => KeyMask(raw) = ord_q
          /\ key' = KeyMask(raw)
          /\ quitPolled' = (quitPolled \/ KeyMask(raw) = ord_q)
    /\ pc' = "check_trigger"
    /\ lastPointer' = NoPointer
    /\ quitRequested' = FALSE
    /\ UNCHANGED <<renderer, overlay_config,
                   variant, opened, released, width, height, dirExists,
                   mkdirCalls, windowOpen, callbackSet, button_clicked,
                   button_rect, captured, frame, display, shown, writes,
                   filesWritten, iter, events, errorPrinted, exitCode,
                   startFail, dirAtStart, enteredLoop, clicksThisPoll,
                   writesThisIter, frozenTrig, readFails>>

\* button_clicked or key == ord(' ') or key == 32
Triggered == button_clicked \/ key = ord_space \/ key = 32

\* a trigger check that looks at the key only
CheckTrigger_KeyOnly ==
    /\ pc = "check_trigger"
    /\ pc' = IF key = ord_space THEN "write" ELSE "check_quit"
    /\ UNCHANGED <<renderer, overlay_config, lastPointer, quitRequested,
                   variant, opened, released, width, height, dirExists,
                   mkdirCalls, windowOpen, callbackSet, button_clicked,
                   button_rect, captured, key, frame, display, shown, writes,
                   filesWritten, iter, events, errorPrinted, exitCode,
                   startFail, dirAtStart, enteredLoop, clicksThisPoll,
                   writesThisIter, quitPolled, frozenTrig, readFails>>

CheckTrigger ==
    /\ pc = "check_trigger"
    /\ pc' = IF Triggered THEN "write" ELSE "check_quit"
    /\ UNCHANGED <<renderer, overlay_config, lastPointer, quitRequested,
                   variant, opened, released, width, height, dirExists,
                   mkdirCalls, windowOpen, callbackSet, button_clicked,
                   button_rect, captured, key, frame, display, shown, writes,
                   filesWritten, iter, events, errorPrinted, exitCode,
                   startFail, dirAtStart, enteredLoop, clicksThisPoll,
                   writesThisIter, quitPolled, frozenTrig, readFails>>

\* cv2.imwrite(filepath, frame): its result is not looked at; it can only
\* succeed when the directory is there
WriteImage ==
    /\ pc = "write"
    /\ \E ok \in BOOLEAN :
          /\ ok => dirExists
          /\ filesWritten' = IF ok THEN filesWritten + 1 ELSE filesWritten
    /\ writes' = writes + 1
    /\ writesThisIter' = writesThisIter + 1
    /\ pc' = "mark"
    /\ UNCHANGED <<renderer, overlay_config, lastPointer, quitRequested,
                   variant, opened, released, width, height, dirExists,
                   mkdirCalls, windowOpen, callbackSet, button_clicked,
                   button_rect, captured, key, frame, display, shown, iter,
                   events, errorPrinted, exitCode, startFail, dirAtStart,
                   enteredLoop, clicksThisPoll, quitPolled, frozenTrig,
                   readFails>>

\* a capture that leaves the click flag set
MarkCaptured_NoReset ==
    /\ pc = "mark"
    /\ captured' = TRUE
    /\ pc' = "check_quit"
    /\ UNCHANGED <<renderer, overlay_config, lastPointer, quitRequested,
                   variant, opened, released, width, height, dirExists,
                   mkdirCalls, windowOpen, callbackSet, button_clicked,
                   button_rect, key, frame, display, shown, writes,
                   filesWritten, iter, events, errorPrinted, exitCode,
                   startFail, dirAtStart, enteredLoop, clicksThisPoll,
                   writesThisIter, quitPolled, frozenTrig, readFails>>

\* captured = True; button_clicked = False
MarkCaptured ==
    /\ pc = "mark"
    /\ captured' = TRUE
    /\ button_clicked' = FALSE
    /\ pc' = "check_quit"
    /\ UNCHANGED <<renderer, overlay_config, lastPointer, quitRequested,
                   variant, opened, released, width, height, dirExists,
                   mkdirCalls, windowOpen, callbackSet, button_rect, key,
                   frame, display, shown, writes, filesWritten, iter, events,
                   errorPrinted, exitCode, startFail, dirAtStart,
                   enteredLoop, clicksThisPoll, writesThisIter, quitPolled,
                   frozenTrig, readFails>>

\* if key == ord('q'): break
CheckQuit ==
    /\ pc = "check_quit"
    /\ pc' = IF key = ord_q THEN "cleanup" ELSE "read"
    /\ UNCHANGED <<renderer, overlay_config, lastPointer, quitRequested,
                   variant, opened, released, width, height, dirExists,
                   mkdirCalls, windowOpen, callbackSet, button_clicked,
                   button_rect, captured, key, frame, display, shown, writes,
                   filesWritten, iter, events, errorPrinted, exitCode,
                   startFail, dirAtStart, enteredLoop, clicksThisPoll,
                   writesThisIter, quitPolled, frozenTrig, readFails>>

\* a cleanup that does not release the camera
Cleanup_NoRelease ==
    /\ pc = "cleanup"
    /\ windowOpen' = FALSE
    /\ pc' = "returned"
    /\ UNCHANGED <<renderer, overlay_config, lastPointer, quitRequested,
                   variant, opened, released, width, height, dirExists,
                   mkdirCalls, callbackSet, button_clicked, button_rect,
                   captured, key, frame, display, shown, writes, filesWritten,
                   iter, events, errorPrinted, exitCode, startFail, dirAtStart,
                   enteredLoop, clicksThisPoll, writesThisIter, quitPolled,
                   frozenTrig, readFails>>

\* cap.release(); cv2.destroyAllWindows(); print shutdown; main() returns
Cleanup ==
    /\ pc = "cleanup"
    /\ released' = released + 1
    /\ windowOpen' = FALSE
    /\ pc' = "returned"
    /\ UNCHANGED <<renderer, overlay_config, lastPointer, quitRequested,
                   variant, opened, width, height, dirExists, mkdirCalls,
                   callbackSet, button_clicked, button_rect, captured, key,
                   frame, display, shown, writes, filesWritten, iter, events,
                   errorPrinted, exitCode, startFail, dirAtStart,
                   enteredLoop, clicksThisPoll, writesThisIter, quitPolled,
                   frozenTrig, readFails>>

\* if __name__ == "__main__": main() -- the interpreter exits with status 0
\* after main() returns and with status 1 after an uncaught exception
ProcessExit ==
    /\ pc \in {"returned", "raised"}
    /\ exitCode' = IF pc = "raised" THEN 1 ELSE 0
    /\ pc' = "done"
    /\ UNCHANGED <<renderer, overlay_config, lastPointer, quitRequested,
                   variant, opened, released, width, height, dirExists,
                   mkdirCalls, windowOpen, callbackSet, button_clicked,
                   button_rect, captured, key, frame, display, shown, writes,
                   filesWritten, iter, events, errorPrinted, startFail,
                   dirAtStart, enteredLoop, clicksThisPoll, writesThisIter,
                   quitPolled, frozenTrig, readFails>>

----------------------------------------------------------------------------

Next ==
    \/ OpenOk
    \/ OpenFail
    \/ FirstReadOk
    \/ FirstReadFail
    \/ DirPresent
    \/ MakedirsOk
    \/ MakedirsRaise
    \/ Setup
    \/ ReadOk
    \/ ReadFail
    \/ ShowFrozen
    \/ PollFrozen
    \/ ShowLive
    \/ MouseEvent
    \/ PollLive
    \/ CheckTrigger
    \/ WriteImage
    \/ MarkCaptured
    \/ CheckQuit
    \/ Cleanup
    \/ ProcessExit

Spec == Init /\ [][Next]_vars

----------------------------------------------------------------------------
(* The session with a user who presses the quit key, for progress *)

\* the user presses 'q' while the window is open; the key waits in the
\* window system until a cv2.waitKey polls it
UserPressesQ ==
    /\ windowOpen
    /\ pc \in {"read", "dropped", "show_live", "show_frozen", "poll_live",
              "poll_frozen"}
    /\ ~quitRequested
    /\ ~quitPolled
    /\ quitRequested' = TRUE
    /\ UNCHANGED <<renderer, overlay_config, lastPointer, variant, pc, opened,
                   released, width, height, dirExists, mkdirCalls, windowOpen,
                   callbackSet, button_clicked, button_rect, captured, key,
                   frame, display, shown, writes, filesWritten, iter, events,
                   errorPrinted, exitCode, startFail, dirAtStart, enteredLoop,
                   clicksThisPoll, writesThisIter, quitPolled, frozenTrig,
                   readFails>>

\* cap.read() past the counted reads: every further read fails, and the
\* loop treats it as it treats any failed read; where the loop continues,
\* the warning is a step of its own
ReadFailsOn ==
    /\ pc = "read"
    /\ iter = MaxIter
    /\ pc' = IF ReadFailPc(variant) = "read" THEN "dropped"
                                             ELSE ReadFailPc(variant)
    /\ events' = 0
    /\ clicksThisPoll' = 0
    /\ writesThisIter' = 0
    /\ UNCHANGED <<renderer, overlay_config, lastPointer, quitRequested,
                   variant, opened, released, width, height, dirExists,
                   mkdirCalls, windowOpen, callbackSet, button_clicked,
                   button_rect, captured, key, frame, display, shown, writes,
                   filesWritten, iter, errorPrinted, exitCode, startFail,
                   dirAtStart, enteredLoop, quitPolled, frozenTrig, readFails>>

\* print("WARNING: Frame dropped"); continue
WarnAndContinue ==
    /\ pc = "dropped"
    /\ pc' = "read"
    /\ UNCHANGED <<renderer, overlay_config, lastPointer, quitRequested,
                   variant, opened, released, width, height, dirExists,
                   mkdirCalls, windowOpen, callbackSet, button_clicked,
                   button_rect, captured, key, frame, display, shown, writes,
                   filesWritten, iter, events, errorPrinted, exitCode,
                   startFail, dirAtStart, enteredLoop, clicksThisPoll,
                   writesThisIter, quitPolled, frozenTrig, readFails>>

\* the steps of main() itself: it keeps running until it returns
MainStep ==
    \/ OpenOk
    \/ OpenFail
    \/ FirstReadOk
    \/ FirstReadFail
    \/ DirPresent
    \/ MakedirsOk
    \/ MakedirsRaise
    \/ Setup
    \/ ReadOk
    \/ ReadFail
    \/ ReadFailsOn
    \/ WarnAndContinue
    \/ ShowFrozen
    \/ PollFrozen
    \/ ShowLive
    \/ PollLive
    \/ CheckTrigger
    \/ WriteImage
    \/ MarkCaptured
    \/ CheckQuit
    \/ Cleanup
    \/ ProcessExit

LiveNext ==
    \/ Next
    \/ UserPressesQ
    \/ ReadFailsOn
    \/ WarnAndContinue

LiveSpec == Init /\ [][LiveNext]_vars /\ WF_vars(MainStep)

----------------------------------------------------------------------------
(* The overlay renderer on its own: constructed for a frame size, then asked
   for its configuration *)

GeomInit ==
    /\ pc = "construct"
    /\ width \in GeomWidths
    /\ height \in GeomHeights
    /\ variant = "main"
    /\ dirExists = FALSE
    /\ dirAtStart = FALSE
    /\ opened = FALSE
    /\ released = 0
    /\ mkdirCalls = 0
    /\ windowOpen = FALSE
    /\ callbackSet = FALSE
    /\ button_clicked = FALSE
    /\ button_rect = None
    /\ captured = FALSE
    /\ key = NoKey
    /\ frame = RawFrame
    /\ display = NoDisplay
    /\ shown = 0
    /\ writes = 0
    /\ filesWritten = 0
    /\ iter = 0
    /\ events = 0
    /\ errorPrinted = FALSE
    /\ exitCode = -1
    /\ startFail = "none"
    /\ enteredLoop = FALSE
    /\ clicksThisPoll = 0
    /\ writesThisIter = 0
    /\ quitPolled = FALSE
    /\ frozenTrig = FALSE
    /\ readFails = 0
    /\ renderer = NoRenderer
    /\ overlay_config = NoConfig
    /\ lastPointer = NoPointer
    /\ quitRequested = FALSE

\* renderer = OverlayRenderer(width, height)
Construct ==
    /\ pc = "construct"
    /\ renderer' = OverlayRenderer(width, height)
    /\ pc' = "constructed"
    /\ UNCHANGED <<overlay_config, lastPointer, quitRequested, variant, opened,
                   released, width, height, dirExists, mkdirCalls, windowOpen,
                   callbackSet, button_clicked, button_rect, captured, key,
                   frame, display, shown, writes, filesWritten, iter, events,
                   errorPrinted, exitCode, startFail, dirAtStart, enteredLoop,
                   clicksThisPoll, writesThisIter, quitPolled, frozenTrig,
                   readFails>>

\* overlay_config = renderer.get_config()
GetConfig ==
    /\ pc = "constructed"
    /\ overlay_config' = get_config(renderer)
    /\ pc' = "configured"
    /\ UNCHANGED <<renderer, lastPointer, quitRequested, variant, opened,
                   released, width, height, dirExists, mkdirCalls, windowOpen,
                   callbackSet, button_clicked, button_rect, captured, key,
                   frame, display, shown, writes, filesWritten, iter, events,
                   errorPrinted, exitCode, startFail, dirAtStart, enteredLoop,
                   clicksThisPoll, writesThisIter, quitPolled, frozenTrig,
                   readFails>>

GeomNext ==
    \/ Construct
    \/ GetConfig

GeomSpec == GeomInit /\ [][GeomNext]_vars

----------------------------------------------------------------------------
(* Properties *)

\* C1: in both entry points cv2.imwrite is executed at most once in a
\* session; clicks on the capture control and space presses that arrive once
\* captured is true cause no write.
AtMostOneWrite == writes <= 1

\* a click on the capture control arrived while FROZEN, the loop went round
\* again, and there is still the one write
FrozenClickIgnored ==
    /\ captured
    /\ frozenTrig
    /\ button_clicked
    /\ pc = "read"
    /\ writes = 1

\* C2: the session starts LIVE and captured only ever goes from false to
\* true: once true it stays true until the session ends.
CapturedIrreversible == (captured = FALSE) /\ [][captured => captured']_vars

\* a session that captured, went through a frozen iteration and ended
EndedFrozen ==
    /\ captured
    /\ frozenTrig
    /\ pc = "done"

\* C3: once a key poll has returned 'q' the loop is not re-entered and no
\* image is written, in that iteration or later, also when a click on the
\* capture control is pending.
QuitWritesNothing ==
    [][quitPolled =>
          (writes' = writes /\ pc' \notin {"read", "show_live", "show_frozen"})]_vars

\* C4: however many pointer-downs inside the capture control one poll
\* delivers, alone or with a space press, the iteration writes at most once,
\* and button_clicked is false again when the iteration reaches its quit
\* check.
DebounceOncePerPoll ==
    /\ writesThisIter <= 1
    /\ pc = "check_quit" => ~button_clicked

\* two clicks inside the control and a space press in one poll, one write
TwoClicksOneCapture ==
    /\ clicksThisPoll >= 2
    /\ key = ord_space
    /\ pc = "check_quit"
    /\ writesThisIter = 1
    /\ writes = 1

\* C5 as stated: in both entry points a failed read inside the loop skips
\* the iteration and the loop goes on with the next read, captured and the
\* written files unchanged.
ReadFailureNonFatal ==
    [][readFails' # readFails =>
          (pc' = "read" /\ captured' = captured /\ writes' = writes)]_vars

\* C5 as amended: a failed read inside the loop changes neither captured nor
\* the written files; main_phone.py skips the iteration and reads again,
\* main.py leaves the loop and shuts the session down.
ReadFailurePolicy ==
    [][readFails' # readFails =>
          /\ captured' = captured
          /\ writes' = writes
          /\ filesWritten' = filesWritten
          /\ pc' = (IF variant = "phone" THEN "read" ELSE "cleanup")]_vars

\* main_phone.py dropped a frame and is displaying a later one
PhoneContinuesAfterDrop ==
    /\ variant = "phone"
    /\ readFails >= 1
    /\ pc = "poll_live"
    /\ exitCode = -1

\* C6: captured is true only if the image write succeeded.
FrozenOnlyAfterSuccessfulWrite == captured => filesWritten >= 1

\* C7: when the camera does not open or the first read fails, the error is
\* reported and main() returns: the loop is not entered, no directory is
\* created, no window or mouse callback is set up, nothing is displayed and
\* nothing is written.
StartupFailureLeavesNothing ==
    startFail # "none" =>
        /\ errorPrinted
        /\ pc \in {"returned", "done"}
        /\ ~enteredLoop
        /\ mkdirCalls = 0
        /\ dirExists = dirAtStart
        /\ ~windowOpen
        /\ ~callbackSet
        /\ shown = 0
        /\ writes = 0
        /\ iter = 0

\* the process ended after a failed first read, with the directory missing
FirstReadFailureExit ==
    /\ startFail = "first_read"
    /\ pc = "done"
    /\ ~dirAtStart

\* C8: the exit status is 0 after a normal quit and non-zero after a camera
\* open failure or a first-read failure.
ExitCodeContract ==
    pc = "done" =>
        /\ startFail # "none" => exitCode # 0
        /\ (startFail = "none" /\ quitPolled) => exitCode = 0

\* C9: every frame displayed while captured is true carries the captured
\* banner and no capture control; every frame displayed while captured is
\* false carries the live banner and the capture control.
BannerMatchesState ==
    [][shown' # shown =>
          /\ display'.banner = (IF captured THEN FrozenMessage ELSE LiveMessage)
          /\ display'.button = ~captured
          /\ display'.guides]_vars

\* a frozen frame is on the display after a live one was
FrozenBannerShown ==
    /\ captured
    /\ shown >= 2
    /\ display.banner = FrozenMessage
    /\ ~display.button
    /\ pc = "poll_frozen"

\* C10: captured_images exists before the loop and so before any write; a
\* missing directory is created by one os.makedirs call made at start-up,
\* and a directory that is already there causes no call and no error.
DirectoryReadyBeforeWrite ==
    /\ [](/\ enteredLoop => dirExists
          /\ writes > 0 => dirExists
          /\ mkdirCalls <= 1
          /\ dirAtStart => (mkdirCalls = 0 /\ pc # "raised" /\ exitCode # 1)
          /\ (enteredLoop /\ ~dirAtStart) => mkdirCalls = 1)
    /\ [][mkdirCalls' # mkdirCalls => (pc = "mkdir" /\ ~enteredLoop)]_vars

\* the directory was missing, was created, and the capture was written
CreatedDirThenWrote ==
    /\ ~dirAtStart
    /\ mkdirCalls = 1
    /\ filesWritten = 1


\* C11: for every width >= 100 and height >= 100 the lesion box
\* (x1, y1, x2, y2) lies inside the frame: 0 <= x1 < x2 < width and
\* 0 <= y1 < y2 < height.
LesionBoxInsideFrame ==
    (pc = "configured" /\ width >= 100 /\ height >= 100) =>
        /\ renderer.lesion_box = overlay_config.lesion_box
        /\ 0 <= overlay_config.lesion_box[1]
        /\ overlay_config.lesion_box[1] < overlay_config.lesion_box[3]
        /\ overlay_config.lesion_box[3] < width
        /\ 0 <= overlay_config.lesion_box[2]
        /\ overlay_config.lesion_box[2] < overlay_config.lesion_box[4]
        /\ overlay_config.lesion_box[4] < height

\* the lesion box of a 1280x720 frame, where int(0.35 * 720) is 251
LesionBox1280x720 ==
    /\ pc = "configured"
    /\ width = 1280
    /\ height = 720
    /\ overlay_config.lesion_box = <<320, 251, 576, 467>>


\* C12 as stated: for every frame size the leftmost point of the coin
\* circle, coin_center.x - coin_radius, lies strictly to the right of the
\* lesion box's right edge plus the gap.
CoinStrictlyBeyondGap ==
    pc = "configured" =>
        overlay_config.coin_center[1] - overlay_config.coin_radius
            > overlay_config.lesion_box[3] + gap_pixels

\* C12 as amended: for every frame size the leftmost point of the coin
\* circle lies exactly at the lesion box's right edge plus the gap, and so
\* strictly to the right of the right edge: circle and box do not overlap.
CoinStartsAtGap ==
    pc = "configured" =>
        /\ overlay_config.coin_center[1] - overlay_config.coin_radius
              = overlay_config.lesion_box[3] + gap_pixels
        /\ overlay_config.coin_center[1] - overlay_config.coin_radius
              > overlay_config.lesion_box[3]
        /\ overlay_config.lesion_box[1] <= overlay_config.lesion_box[3]

\* the coin circle of a 640x480 frame: the box ends at 288, the circle
\* starts at 363
Coin640x480 ==
    /\ pc = "configured"
    /\ width = 640
    /\ height = 480
    /\ overlay_config.lesion_box[3] = 288
    /\ overlay_config.coin_radius = 51
    /\ overlay_config.coin_center = <<414, 240>>

\* C16: the gap between the lesion box's right edge and the coin circle is
\* the same for every frame size and is the pixel equivalent of 2 mm at
\* 96 DPI, 7 to 8 pixels.
GapIsTwoMillimetres ==
    pc = "configured" =>
        /\ overlay_config.coin_center[1] - overlay_config.coin_radius
              - overlay_config.lesion_box[3] = gap_pixels
        /\ gap_pixels \in 7 .. 8

\* C20: for every width >= 200 and height >= 100 with width <= 4 * height
\* the coin circle lies inside the frame.
CoinCircleInsideFrame ==
    (pc = "configured" /\ width >= 200 /\ height >= 100 /\ width <= 4 * height)
        =>
        /\ overlay_config.coin_center[1] - overlay_config.coin_radius >= 0
        /\ overlay_config.coin_center[1] + overlay_config.coin_radius < width
        /\ overlay_config.coin_center[2] - overlay_config.coin_radius >= 0
        /\ overlay_config.coin_center[2] + overlay_config.coin_radius < height

\* the narrowest frame of the claim: 200 wide, circle from 165 to 197
Coin200x100 ==
    /\ pc = "configured"
    /\ width = 200
    /\ height = 100
    /\ overlay_config.coin_center = <<181, 50>>
    /\ overlay_config.coin_radius = 16


\* C13: the rectangle stored in button_rect is 200 wide and 60 high, sits
\* 100 pixels above the bottom of the frame, is horizontally centred for
\* every frame width (button_x + 100 is within 1 of half the width), and is
\* the same rectangle in every LIVE iteration.
ButtonCentred ==
    /\ [](button_rect # None =>
            /\ button_rect[3] = 200
            /\ button_rect[4] = 60
            /\ button_rect[2] = height - 100
            /\ 2 * (button_rect[1] + 100) - width \in -2 .. 2
            /\ \A w \in GeomWidths :
                  2 * (ButtonRect(w, height)[1] + 100) - w \in -2 .. 2)
    /\ [][button_rect # None => button_rect' = button_rect]_vars

\* a second LIVE iteration on a 175 pixel wide frame: button_x is -13
SecondLiveButton175 ==
    /\ width = 175
    /\ height = 144
    /\ iter >= 2
    /\ ~captured
    /\ pc = "poll_live"
    /\ button_rect = <<-13, 44, 200, 60>>

\* C14: the overlay configuration is the one OverlayRenderer computes from
\* (width, height); once computed at start-up, no loop iteration, drawing
\* call, capture or input event changes the renderer's fields, and
\* get_config keeps returning the values read at start-up.
ConfigNeverChanges ==
    /\ [](enteredLoop =>
            /\ renderer = OverlayRenderer(width, height)
            /\ get_config(renderer) = overlay_config)
    /\ [][enteredLoop =>
            (renderer' = renderer /\ overlay_config' = overlay_config)]_vars

\* a 640x480 session that captured, displayed frozen frames and ended, with
\* the configuration it started with
ConfigAtSessionEnd ==
    /\ pc = "done"
    /\ captured
    /\ shown >= 2
    /\ width = 640
    /\ get_config(renderer).coin_center = <<414, 240>>
    /\ overlay_config.lesion_box = <<160, 168, 288, 312>>


\* a pointer-down whose position lies in the capture control of the current
\* frame size, edges included
PointerInsideControl(p) ==
    /\ p[1] = 1
    /\ (width - 200) \div 2 <= p[2]
    /\ p[2] <= (width - 200) \div 2 + 200
    /\ height - 100 <= p[3]
    /\ p[3] <= height - 40

\* C17: a pointer-down inside button_rect, bounds inclusive, sets
\* button_clicked, and no other pointer event does, nor any event while
\* button_rect is unset; a LIVE iteration whose poll observed such a click
\* or a space key writes the file in that same iteration, before captured
\* is set; no write happens in an iteration whose poll observed neither.
CaptureFollowsTrigger ==
    /\ [](/\ button_rect = None => ~button_clicked
          /\ (pc = "check_quit" /\ (clicksThisPoll > 0 \/ key = 32)) =>
                (writesThisIter = 1 /\ captured)
          /\ pc \in {"write", "mark"} => ~captured)
    /\ [][/\ events' = events + 1 =>
                /\ button_clicked' =
                      (button_clicked \/ PointerInsideControl(lastPointer'))
                /\ clicksThisPoll' = clicksThisPoll +
                      (IF PointerInsideControl(lastPointer') THEN 1 ELSE 0)
          /\ writes' # writes =>
                (~captured /\ ~captured' /\ (clicksThisPoll > 0 \/ key = 32))
          /\ (captured' /\ ~captured) =>
                (writesThisIter = 1 /\ writes' = writes)]_vars

\* one click and no key in the poll: the file is written, captured not yet
\* set
ClickCaptureWritten ==
    /\ pc = "mark"
    /\ clicksThisPoll = 1
    /\ events = 2
    /\ key = NoKey
    /\ writesThisIter = 1
    /\ ~captured

\* C18: with pointer events delivered only inside the key poll,
\* button_clicked is false at the start of every loop iteration in which
\* captured is false, up to the poll; in FROZEN a click may leave
\* button_clicked true, and nothing is written.
ClickNotCarriedOver ==
    /\ []((~captured /\ (pc \in {"read", "show_live"}
                          \/ (pc = "poll_live" /\ events = 0)))
              => ~button_clicked)
    /\ [][captured => writes' = writes]_vars

\* the start of a second LIVE iteration, after a first one that displayed
\* a frame and polled
SecondLiveIterationClean ==
    /\ ~captured
    /\ iter = 2
    /\ shown = 1
    /\ key # NoKey
    /\ pc = "show_live"
    /\ ~button_clicked

\* C19: once the camera was opened, every return of main() has released it
\* exactly once, whether after a failed first read, a quit key in LIVE or
\* FROZEN, or a failed read that ends the loop; it is never released twice
\* and never read after being released.
CameraReleasedOnce ==
    /\ [](/\ released <= 1
          /\ ~opened => released = 0
          /\ (opened /\ (pc = "returned" \/ (pc = "done" /\ exitCode = 0)))
                => released = 1)
    /\ [][iter' # iter => (released = 0 /\ released' = 0)]_vars

\* main.py ended by a failed read inside the loop, camera released once
ReleasedAfterLoopReadFailure ==
    /\ variant = "main"
    /\ readFails = 1
    /\ iter >= 2
    /\ pc = "done"
    /\ released = 1


\* C15: in main_phone.py, once the user has pressed 'q' the loop eventually
\* exits, also when every later frame read fails.
QuitEventuallyExits ==
    (variant = "phone" /\ quitRequested)
        ~> (pc \in {"cleanup", "returned", "done"})

====
